---------------------------- MODULE Spec2Model ----------------------------
(***************************************************************************)
(* A model of the ExtFraction value type of src/rust_ai/src/lib.rs: exact  *)
(* rationals over i128 extended with +infinity, -infinity and NaN, encoded  *)
(* by denominator == 0.                                                     *)
(*                                                                          *)
(* A value is a record [numerator, denominator].  The pure functions of     *)
(* the library are operators that compute as the code computes (Rust's      *)
(* truncating / and %, the same branches in the same order).  The state     *)
(* machine is a caller: two bindings x and y, the last call made (op, args) *)
(* and what it returned (r, out).                                           *)
(*                                                                          *)
(* Widths.  TLC's integers are 32 bits wide, so the IEEE-754 double that    *)
(* from_float decomposes and the i128 it shifts in are modelled at reduced  *)
(* width: MantBits stands for the 52 fraction bits, ExpBits for the 11      *)
(* exponent bits, IntBits for the 128 bits of i128.  The arithmetic is      *)
(* modelled on operands of magnitude at most MaxAbs, where the i128         *)
(* arithmetic of the code does not overflow.                                *)
(***************************************************************************)
EXTENDS Integers, Sequences, FiniteSets, TLC

VARIABLES x, y, op, args, r, out

vars == <<x, y, op, args, r, out>>

(***************************************************************************)
(* Bounds of the model.                                                     *)
(***************************************************************************)
\* Largest |numerator| and |denominator| an operand may have.
MaxAbs == 4
\* Exponents passed to pow range over -MaxExp .. MaxExp.
MaxExp == 2
\* Fraction bits of the modelled float (52 in an f64).
MantBits == 1
\* Exponent bits of the modelled float (11 in an f64).
ExpBits == 4
\* Bits of the modelled signed integer (128 in i128).
IntBits == 4

(***************************************************************************)
(* Integer helpers: Rust's i128 operators.                                  *)
(***************************************************************************)
Abs(a) == IF a < 0 THEN -a ELSE a

\* i128 `/`: the quotient truncated toward zero (b # 0).
TruncDiv(a, b) ==
    IF (a < 0) = (b < 0) THEN Abs(a) \div Abs(b) ELSE -(Abs(a) \div Abs(b))

\* i128 `%`: the remainder, with the sign of the dividend (b # 0).
Rem(a, b) == a - b * TruncDiv(a, b)

RECURSIVE Pow(_, _)
\* i128::pow(base, e) for e >= 0.
Pow(base, e) == IF e = 0 THEN 1 ELSE base * Pow(base, e - 1)

RECURSIVE gcd_loop(_, _)
gcd_loop(a, b) == IF b # 0 THEN gcd_loop(b, Rem(a, b)) ELSE a

gcd(a, b) == gcd_loop(Abs(a), Abs(b))

(***************************************************************************)
(* The value type and its constructors.                                     *)
(***************************************************************************)
ExtFraction(n, d) == [numerator |-> n, denominator |-> d]

from_integer(n) == ExtFraction(n, 1)

infinity(sign) == ExtFraction(IF sign THEN 1 ELSE -1, 0)

nan == ExtFraction(0, 0)

is_finite(f) == f.denominator # 0

is_infinite(f) == f.denominator = 0 /\ f.numerator # 0

is_nan(f) == f.denominator = 0 /\ f.numerator = 0

is_integer(f) == f.denominator = 1

\* A plausible slip: the sign taken from the numerator alone.
reduce_sign_of_numerator(numerator, denominator) ==
    LET num0 == Abs(numerator)
        den0 == Abs(denominator)
        g    == gcd(num0, den0)
        num  == TruncDiv(num0, g)
        den  == TruncDiv(den0, g)
    IN  IF numerator < 0
        THEN ExtFraction(-num, den)
        ELSE ExtFraction(num, den)

reduce(numerator, denominator) ==
    LET num0 == Abs(numerator)
        den0 == Abs(denominator)
        g    == gcd(num0, den0)
        num  == TruncDiv(num0, g)
        den  == TruncDiv(den0, g)
    IN  IF (numerator < 0) # (denominator < 0)
        THEN ExtFraction(-num, den)
        ELSE ExtFraction(num, den)

new(numerator, denominator) ==
    IF denominator = 0
    THEN IF numerator = 0 THEN ExtFraction(0, 0)
         ELSE IF numerator > 0 THEN ExtFraction(1, 0)
         ELSE ExtFraction(-1, 0)
    ELSE reduce(numerator, denominator)

(***************************************************************************)
(* from_float.  A float is its bit fields [sign, bexp, frac]: the sign bit, *)
(* the biased exponent and the fraction bits.                               *)
(***************************************************************************)
\* The exponent bias (1023 for an f64) and the all-ones exponent (0x7ff).
ExpBias == Pow(2, ExpBits - 1) - 1
ExpMask == Pow(2, ExpBits) - 1

\* i128::MAX and i128::MIN at the modelled width.
IntMax == Pow(2, IntBits - 1) - 1
IntMin == -Pow(2, IntBits - 1)

Floats == [sign : {0, 1}, bexp : 0 .. ExpMask, frac : 0 .. Pow(2, MantBits) - 1]

f64_is_nan(f) == f.bexp = ExpMask /\ f.frac # 0

f64_is_infinite(f) == f.bexp = ExpMask /\ f.frac = 0

f64_is_sign_positive(f) == f.sign = 0

\* 1i128.checked_shl(k).unwrap_or(i128::MAX): None when k is the width or
\* more; a shift into the sign bit gives i128::MIN.
checked_shl_or_max(k) ==
    IF k >= IntBits THEN IntMax
    ELSE IF k = IntBits - 1 THEN IntMin
    ELSE Pow(2, k)

from_float(f) ==
    IF f64_is_nan(f) THEN nan
    ELSE IF f64_is_infinite(f) THEN infinity(f64_is_sign_positive(f))
    ELSE
    LET sign      == IF f.sign = 1 THEN -1 ELSE 1
        exponent  == f.bexp - ExpBias
        mantissa  == f.frac + Pow(2, MantBits)
        numerator == sign * mantissa
    IN  IF exponent >= 0
        THEN ExtFraction(numerator, checked_shl_or_max(exponent))
        ELSE ExtFraction(numerator, checked_shl_or_max(-exponent))

(***************************************************************************)
(* from_str.  A string is the sequence of its characters.                   *)
(***************************************************************************)
UpperCase == <<"A", "B", "C", "D", "E", "F", "G", "H", "I", "J", "K", "L", "M",
               "N", "O", "P", "Q", "R", "S", "T", "U", "V", "W", "X", "Y", "Z">>
LowerCase == <<"a", "b", "c", "d", "e", "f", "g", "h", "i", "j", "k", "l", "m",
               "n", "o", "p", "q", "r", "s", "t", "u", "v", "w", "x", "y", "z">>
DigitChars == <<"0", "1", "2", "3", "4", "5", "6", "7", "8", "9">>
WhiteSpace == {" ", "\t"}

IsDigit(c) == \E i \in 1 .. 10 : DigitChars[i] = c

DigitVal(c) == (CHOOSE i \in 1 .. 10 : DigitChars[i] = c) - 1

AllDigits(s) == \A i \in 1 .. Len(s) : IsDigit(s[i])

RECURSIVE DigitsVal(_)
\* The number a sequence of decimal digits denotes (0 for the empty one).
DigitsVal(s) ==
    IF s = <<>> THEN 0
    ELSE 10 * DigitsVal(SubSeq(s, 1, Len(s) - 1)) + DigitVal(s[Len(s)])

Contains(s, c) == \E i \in 1 .. Len(s) : s[i] = c

IndexOf(s, c) == CHOOSE i \in 1 .. Len(s) : s[i] = c /\ \A j \in 1 .. i - 1 : s[j] # c

RECURSIVE trim_start(_)
trim_start(s) ==
    IF s # <<>> /\ Head(s) \in WhiteSpace THEN trim_start(Tail(s)) ELSE s

RECURSIVE trim_end(_)
trim_end(s) ==
    IF s # <<>> /\ s[Len(s)] \in WhiteSpace
    THEN trim_end(SubSeq(s, 1, Len(s) - 1))
    ELSE s

trim(s) == trim_end(trim_start(s))

to_lowercase(s) ==
    [i \in 1 .. Len(s) |->
        IF \E k \in 1 .. 26 : UpperCase[k] = s[i]
        THEN LowerCase[CHOOSE k \in 1 .. 26 : UpperCase[k] = s[i]]
        ELSE s[i]]

RECURSIVE split(_, _)
\* str::split(c): the parts between the occurrences of c.
split(s, c) ==
    IF ~Contains(s, c) THEN <<s>>
    ELSE LET i == IndexOf(s, c)
         IN  <<SubSeq(s, 1, i - 1)>> \o split(SubSeq(s, i + 1, Len(s)), c)

\* str::parse::<i128>: an optional sign and at least one digit.
parse_i128(s) ==
    LET signed == s # <<>> /\ s[1] \in {"+", "-"}
        digits == IF signed THEN Tail(s) ELSE s
    IN  IF digits = <<>> \/ ~AllDigits(digits) THEN [ok |-> FALSE, val |-> 0]
        ELSE [ok |-> TRUE,
              val |-> IF signed /\ s[1] = "-" THEN -DigitsVal(digits)
                      ELSE DigitsVal(digits)]

\* The significand and the exponent of two of a finite non-negative float:
\* its value is FloatSig(f) * 2^FloatExp(f).
FloatSig(f) == IF f.bexp = 0 THEN f.frac ELSE f.frac + Pow(2, MantBits)
FloatExp(f) == (IF f.bexp = 0 THEN 1 ELSE f.bexp) - ExpBias - MantBits
FloatKey(f) == f.bexp * Pow(2, MantBits) + f.frac

\* sig * 2^e <= num / den, and sig * 2^e < num / den  (den > 0).
ScaledLe(sig, e, num, den) ==
    IF e >= 0 THEN sig * Pow(2, e) * den <= num ELSE sig * den <= num * Pow(2, -e)
ScaledLt(sig, e, num, den) ==
    IF e >= 0 THEN sig * Pow(2, e) * den < num ELSE sig * den < num * Pow(2, -e)

\* The float nearest to sign * num / den (num >= 0, den > 0), ties to even,
\* infinity past the largest finite float: what a correctly rounded decimal
\* parse returns.
round_to_float(sign, num, den) ==
    LET finite == {f \in Floats : f.sign = 0 /\ f.bexp < ExpMask}
        below  == {f \in finite : ScaledLe(FloatSig(f), FloatExp(f), num, den)}
        lo     == CHOOSE f \in below : \A g \in below : FloatKey(g) <= FloatKey(f)
        key    == FloatKey(lo) + 1
        hi     == [sign |-> 0, bexp |-> key \div Pow(2, MantBits),
                   frac |-> key % Pow(2, MantBits)]
        msig   == 2 * FloatSig(lo) + 1
        mexp   == FloatExp(lo) - 1
        pick   == IF ScaledLt(msig, mexp, num, den) THEN hi
                  ELSE IF ScaledLe(msig, mexp, num, den)
                       THEN (IF lo.frac % 2 = 0 THEN lo ELSE hi)
                       ELSE lo
    IN  [pick EXCEPT !.sign = sign]

\* str::parse::<f64> of a lower-case string that holds a '.': an optional
\* sign, digits with one '.', at least one digit, and an optional exponent
\* e[sign]digits.
parse_f64(s) ==
    LET signed == s # <<>> /\ s[1] \in {"+", "-"}
        sign   == IF signed /\ s[1] = "-" THEN 1 ELSE 0
        body   == IF signed THEN Tail(s) ELSE s
        hasExp == Contains(body, "e")
        mant   == IF hasExp THEN SubSeq(body, 1, IndexOf(body, "e") - 1) ELSE body
        expo   == IF hasExp THEN parse_i128(SubSeq(body, IndexOf(body, "e") + 1, Len(body)))
                  ELSE [ok |-> TRUE, val |-> 0]
        parts  == split(mant, ".")
        bad    == [ok |-> FALSE, val |-> [sign |-> 0, bexp |-> 0, frac |-> 0]]
    IN  IF Len(parts) # 2 \/ ~expo.ok THEN bad
        ELSE IF ~AllDigits(parts[1]) \/ ~AllDigits(parts[2]) THEN bad
        ELSE IF parts[1] = <<>> /\ parts[2] = <<>> THEN bad
        ELSE
        LET digits == DigitsVal(parts[1] \o parts[2])
            scale  == expo.val - Len(parts[2])
            num    == IF scale >= 0 THEN digits * Pow(10, scale) ELSE digits
            den    == IF scale >= 0 THEN 1 ELSE Pow(10, -scale)
        IN  [ok |-> TRUE, val |-> round_to_float(sign, num, den)]

\* Result<ExtFraction, String>: tag "Ok" with the value, or the error message.
StrOk(v) == [tag |-> "Ok", val |-> v]
StrErr(msg) == [tag |-> msg, val |-> nan]

from_str(str) ==
    LET s == to_lowercase(trim(str))
    IN  IF s \in {<<"i", "n", "f">>, <<"+", "i", "n", "f">>,
                  <<"i", "n", "f", "i", "n", "i", "t", "y">>,
                  <<"+", "i", "n", "f", "i", "n", "i", "t", "y">>}
        THEN StrOk(infinity(TRUE))
        ELSE IF s \in {<<"-", "i", "n", "f">>,
                       <<"-", "i", "n", "f", "i", "n", "i", "t", "y">>}
        THEN StrOk(infinity(FALSE))
        ELSE IF s = <<"n", "a", "n">> THEN StrOk(nan)
        ELSE IF Contains(s, "/")
        THEN LET parts == split(s, "/")
             IN  IF Len(parts) # 2 THEN StrErr("Invalid fraction format")
                 ELSE IF ~parse_i128(parts[1]).ok THEN StrErr("Invalid numerator")
                 ELSE IF ~parse_i128(parts[2]).ok THEN StrErr("Invalid denominator")
                 ELSE StrOk(new(parse_i128(parts[1]).val, parse_i128(parts[2]).val))
        ELSE IF Contains(s, ".")
        THEN IF ~parse_f64(s).ok THEN StrErr("Invalid float")
             ELSE StrOk(from_float(parse_f64(s).val))
        ELSE IF ~parse_i128(s).ok THEN StrErr("Invalid integer")
             ELSE StrOk(from_integer(parse_i128(s).val))

\* The strings the caller parses.
StrInputs ==
    {<<"i", "n", "f">>,
     <<"+", "I", "N", "F">>,
     <<"I", "n", "f", "i", "n", "i", "t", "y">>,
     <<"-", "i", "n", "f">>,
     <<"-", "I", "n", "f", "i", "n", "i", "t", "y">>,
     <<" ", "N", "a", "N", " ">>,
     <<"3", "/", "4">>,
     <<"-", "6", "/", "4">>,
     <<"4", "/", "-", "2">>,
     <<"1", "/", "0">>,
     <<"0", "/", "0">>,
     <<"1", "/", "2", "/", "3">>,
     <<"a", "/", "2">>,
     <<"1", "/", "b">>,
     <<"0", ".", "5">>,
     <<"1", ".", "5">>,
     <<"-", "0", ".", "2", "5">>,
     <<"2", ".">>,
     <<".", "5">>,
     <<"0", ".", "1">>,
     <<"-", "0", ".", "0">>,
     <<"1", ".", "5", "e", "1">>,
     <<"3", "0", "0", ".", "0">>,
     <<".">>,
     <<"1", ".", "x">>,
     <<"3">>,
     <<"-", "2">>,
     <<"+", "4">>,
     <<>>,
     <<"a", "b", "c">>,
     <<"1", "e", "2">>,
     <<"-">>}

(***************************************************************************)
(* limit_denominator.  The result is [tag, val]: tag "Ok" with the value,   *)
(* "Err" (the invalid-argument error) or "Panic" (an integer division by    *)
(* zero, which panics in every build).                                      *)
(***************************************************************************)
Ok(v) == [tag |-> "Ok", val |-> v]
Err == [tag |-> "Err", val |-> nan]
Panic == [tag |-> "Panic", val |-> nan]

RECURSIVE ld_loop(_, _, _, _, _, _, _)
\* The loop of limit_denominator: the state it breaks with, or a panic.
ld_loop(p0, q0, p1, q1, n, d, max_denominator) ==
    IF d = 0 THEN [panic |-> TRUE]
    ELSE
    LET a  == TruncDiv(n, d)
        q2 == q0 + a * q1
    IN  IF q2 > max_denominator
        THEN [panic |-> FALSE, p0 |-> p0, q0 |-> q0, p1 |-> p1, q1 |-> q1,
              n |-> n, d |-> d]
        ELSE ld_loop(p1, q1, p0 + a * p1, q2, d, n - a * d, max_denominator)

limit_denominator(self, max_denominator) ==
    IF is_nan(self) \/ is_infinite(self) THEN Ok(self)
    ELSE IF max_denominator < 1 THEN Err
    ELSE IF self.denominator <= max_denominator THEN Ok(self)
    ELSE
    LET s == ld_loop(0, 1, 1, 0, self.numerator, self.denominator,
                     max_denominator)
    IN  IF s.panic THEN Panic
        ELSE IF s.q1 = 0 THEN Panic
        ELSE
        LET k == TruncDiv(max_denominator - s.q0, s.q1)
        IN  IF 2 * s.d * (s.q0 + k * s.q1) <= self.denominator
            THEN Ok(ExtFraction(s.p1, s.q1))
            ELSE Ok(ExtFraction(s.p0 + k * s.p1, s.q0 + k * s.q1))

(***************************************************************************)
(* Arithmetic.                                                              *)
(***************************************************************************)
neg(self) ==
    IF is_nan(self) THEN nan
    ELSE IF is_infinite(self) THEN infinity(self.numerator < 0)
    ELSE ExtFraction(-self.numerator, self.denominator)

\* A plausible slip in the finite path of add: the numerator of other not
\* scaled by s.
add_finite_unscaled(self, other) ==
    LET na == self.numerator
        da == self.denominator
        nb == other.numerator
        db == other.denominator
        g  == gcd(da, db)
    IN  IF g = 1 THEN reduce(na * db + da * nb, da * db)
        ELSE
        LET s  == TruncDiv(da, g)
            t  == na * TruncDiv(db, g) + nb
            g2 == gcd(t, g)
        IN  IF g2 = 1 THEN reduce(t, s * db)
            ELSE reduce(TruncDiv(t, g2), s * TruncDiv(db, g2))

\* The finite path of add.
add_finite(self, other) ==
    LET na == self.numerator
        da == self.denominator
        nb == other.numerator
        db == other.denominator
        g  == gcd(da, db)
    IN  IF g = 1 THEN reduce(na * db + da * nb, da * db)
        ELSE
        LET s  == TruncDiv(da, g)
            t  == na * TruncDiv(db, g) + nb * s
            g2 == gcd(t, g)
        IN  IF g2 = 1 THEN reduce(t, s * db)
            ELSE reduce(TruncDiv(t, g2), s * TruncDiv(db, g2))

add(self, other) ==
    IF is_nan(self) \/ is_nan(other) THEN nan
    ELSE IF is_infinite(self) /\ is_infinite(other) THEN nan
    ELSE IF is_infinite(self) \/ is_infinite(other)
         THEN (IF is_infinite(self) THEN self ELSE other)
    ELSE add_finite(self, other)

\* The finite path of sub.
sub_finite(self, other) ==
    LET na == self.numerator
        da == self.denominator
        nb == other.numerator
        db == other.denominator
        g  == gcd(da, db)
    IN  IF g = 1 THEN reduce(na * db - da * nb, da * db)
        ELSE
        LET s  == TruncDiv(da, g)
            t  == na * TruncDiv(db, g) - nb * s
            g2 == gcd(t, g)
        IN  IF g2 = 1 THEN reduce(t, s * db)
            ELSE reduce(TruncDiv(t, g2), s * TruncDiv(db, g2))

\* A plausible slip: an infinite subtrahend returned as it is.
sub_subtrahend_kept(self, other) ==
    IF is_nan(self) \/ is_nan(other) THEN nan
    ELSE IF is_infinite(self) /\ is_infinite(other)
         THEN (IF self.numerator = other.numerator THEN nan ELSE self)
    ELSE IF is_infinite(self) \/ is_infinite(other)
         THEN (IF is_infinite(self) THEN self ELSE other)
    ELSE sub_finite(self, other)

sub(self, other) ==
    IF is_nan(self) \/ is_nan(other) THEN nan
    ELSE IF is_infinite(self) /\ is_infinite(other)
         THEN (IF self.numerator = other.numerator THEN nan ELSE self)
    ELSE IF is_infinite(self) \/ is_infinite(other)
         THEN (IF is_infinite(self) THEN self ELSE neg(other))
    ELSE sub_finite(self, other)

\* A plausible slip in the finite path of mul: g1 divided out of the
\* numerator of self only.
mul_finite_half_cancel(self, other) ==
    LET g1 == gcd(self.numerator, other.denominator)
        na == IF g1 > 1 THEN TruncDiv(self.numerator, g1) ELSE self.numerator
        db == other.denominator
        g2 == gcd(other.numerator, self.denominator)
        nb == IF g2 > 1 THEN TruncDiv(other.numerator, g2) ELSE other.numerator
        da == IF g2 > 1 THEN TruncDiv(self.denominator, g2)
              ELSE self.denominator
    IN  reduce(na * nb, db * da)

\* The finite path of mul.
mul_finite(self, other) ==
    LET g1 == gcd(self.numerator, other.denominator)
        na == IF g1 > 1 THEN TruncDiv(self.numerator, g1) ELSE self.numerator
        db == IF g1 > 1 THEN TruncDiv(other.denominator, g1)
              ELSE other.denominator
        g2 == gcd(other.numerator, self.denominator)
        nb == IF g2 > 1 THEN TruncDiv(other.numerator, g2) ELSE other.numerator
        da == IF g2 > 1 THEN TruncDiv(self.denominator, g2)
              ELSE self.denominator
    IN  reduce(na * nb, db * da)

mul(self, other) ==
    IF is_nan(self) \/ is_nan(other) THEN nan
    ELSE IF is_infinite(self) \/ is_infinite(other)
    THEN IF (is_infinite(self) /\ other.numerator = 0)
            \/ (is_infinite(other) /\ self.numerator = 0)
         THEN nan
         ELSE
         LET sign_positive ==
                 IF is_infinite(self) THEN self.numerator > 0
                 ELSE other.numerator > 0
             other_sign_positive ==
                 IF is_infinite(self) THEN other.numerator >= 0
                 ELSE self.numerator >= 0
         IN  infinity(sign_positive = other_sign_positive)
    ELSE mul_finite(self, other)

\* The finite path of div (other is not zero).
div_finite(self, other) ==
    LET g1 == gcd(self.numerator, other.numerator)
        na == IF g1 > 1 THEN TruncDiv(self.numerator, g1) ELSE self.numerator
        nb == IF g1 > 1 THEN TruncDiv(other.numerator, g1) ELSE other.numerator
        g2 == gcd(other.denominator, self.denominator)
        da == IF g2 > 1 THEN TruncDiv(self.denominator, g2)
              ELSE self.denominator
        db == IF g2 > 1 THEN TruncDiv(other.denominator, g2)
              ELSE other.denominator
        num0 == na * db
        den0 == nb * da
        num  == IF den0 < 0 THEN -num0 ELSE num0
        den  == IF den0 < 0 THEN -den0 ELSE den0
    IN  reduce(num, den)

div(self, other) ==
    IF is_nan(self) \/ is_nan(other) THEN nan
    ELSE IF is_infinite(other) THEN from_integer(0)
    ELSE IF is_infinite(self) THEN self
    ELSE IF other.numerator = 0
    THEN (IF self.numerator = 0 THEN nan ELSE infinity(self.numerator > 0))
    ELSE div_finite(self, other)

\* A plausible slip: the reciprocal power built without reduce, so that the
\* sign stays in the denominator.
pow_reciprocal_unreduced(self, exp) ==
    IF is_nan(self) THEN nan
    ELSE IF is_infinite(self)
    THEN IF exp = 0 THEN from_integer(1)
         ELSE IF exp > 0 THEN self
         ELSE from_integer(0)
    ELSE IF exp >= 0
    THEN reduce(Pow(self.numerator, exp), Pow(self.denominator, exp))
    ELSE IF self.numerator = 0 THEN infinity(TRUE)
    ELSE ExtFraction(Pow(self.denominator, -exp), Pow(self.numerator, -exp))

\* A plausible slip: the exponent 0 answered before the NaN test.
pow_zero_exponent_first(self, exp) ==
    IF exp = 0 THEN from_integer(1)
    ELSE IF is_nan(self) THEN nan
    ELSE IF is_infinite(self)
    THEN IF exp > 0 THEN self ELSE from_integer(0)
    ELSE IF exp >= 0
    THEN reduce(Pow(self.numerator, exp), Pow(self.denominator, exp))
    ELSE IF self.numerator = 0 THEN infinity(TRUE)
    ELSE reduce(Pow(self.denominator, -exp), Pow(self.numerator, -exp))

pow(self, exp) ==
    IF is_nan(self) THEN nan
    ELSE IF is_infinite(self)
    THEN IF exp = 0 THEN from_integer(1)
         ELSE IF exp > 0 THEN self
         ELSE from_integer(0)
    ELSE IF exp >= 0
    THEN reduce(Pow(self.numerator, exp), Pow(self.denominator, exp))
    ELSE IF self.numerator = 0 THEN infinity(TRUE)
    ELSE reduce(Pow(self.denominator, -exp), Pow(self.numerator, -exp))

(***************************************************************************)
(* Equality and ordering.                                                   *)
(***************************************************************************)
\* A plausible slip: the field-wise equality #[derive(PartialEq)] would give.
eq_derived(self, other) ==
    self.numerator = other.numerator /\ self.denominator = other.denominator

eq(self, other) ==
    IF is_nan(self) \/ is_nan(other) THEN FALSE
    ELSE IF is_infinite(self) /\ is_infinite(other)
         THEN self.numerator = other.numerator
    ELSE IF is_infinite(self) \/ is_infinite(other) THEN FALSE
    ELSE self.numerator = other.numerator
         /\ self.denominator = other.denominator

\* i128's Ord::cmp.
int_cmp(a, b) == IF a < b THEN "Less" ELSE IF a = b THEN "Equal" ELSE "Greater"

cmp(self, other) ==
    int_cmp(self.numerator * other.denominator,
            other.numerator * self.denominator)

\* Option<Ordering>: "None", or the ordering inside Some.
partial_cmp(self, other) ==
    IF is_nan(self) \/ is_nan(other) THEN "None"
    ELSE IF is_infinite(self) /\ is_infinite(other)
    THEN IF self.numerator = other.numerator THEN "Equal"
         ELSE IF self.numerator > other.numerator THEN "Greater"
         ELSE "Less"
    ELSE IF is_infinite(self)
         THEN (IF self.numerator > 0 THEN "Greater" ELSE "Less")
    ELSE IF is_infinite(other)
         THEN (IF other.numerator > 0 THEN "Less" ELSE "Greater")
    ELSE cmp(self, other)

\* The comparison operators PartialOrd derives from partial_cmp.
lt(a, b) == partial_cmp(a, b) = "Less"
le(a, b) == partial_cmp(a, b) \in {"Less", "Equal"}
gt(a, b) == partial_cmp(a, b) = "Greater"
ge(a, b) == partial_cmp(a, b) \in {"Greater", "Equal"}

(***************************************************************************)
(* The caller.  x and y are two bindings of ExtFraction values; op and args *)
(* are the last call made; r is <<v>> when that call returned the           *)
(* ExtFraction v and <<>> when it returned none; out is what else it        *)
(* returned: a bool or an ordering (as a string), an error message, or      *)
(* "panic".  Binary calls take x as self and y as other, unary calls take   *)
(* x.  No call changes a binding (the type is immutable); Let binds the     *)
(* value a call returned, so that later calls take it as an operand.        *)
(***************************************************************************)
Ints == -MaxAbs .. MaxAbs

Exps == -MaxExp .. MaxExp

\* max_denominator arguments: below 1, and every bound a result may have.
MaxDens == -1 .. MaxAbs

InRange(f) == Abs(f.numerator) <= MaxAbs /\ Abs(f.denominator) <= MaxAbs

\* The last call returned the ExtFraction v.
Returns(v) ==
    /\ r' = <<v>>
    /\ out' = ""
    /\ UNCHANGED <<x, y>>

\* The last call returned no ExtFraction but the result o.
Answers(o) ==
    /\ r' = <<>>
    /\ out' = o
    /\ UNCHANGED <<x, y>>

(***************************************************************************)
(* The constructors.                                                        *)
(***************************************************************************)
New ==
    \E n \in Ints, d \in Ints :
        op' = "new" /\ args' = <<n, d>> /\ Returns(new(n, d))

FromInteger ==
    \E n \in Ints :
        op' = "from_integer" /\ args' = <<n>> /\ Returns(from_integer(n))

Infinity ==
    \E sign \in BOOLEAN :
        op' = "infinity" /\ args' = <<sign>> /\ Returns(infinity(sign))

Nan == op' = "nan" /\ args' = <<>> /\ Returns(nan)

FromFloat ==
    \E f \in Floats :
        op' = "from_float" /\ args' = <<f>> /\ Returns(from_float(f))

FromStr ==
    \E s \in StrInputs :
        /\ op' = "from_str"
        /\ args' = s
        /\ LET res == from_str(s)
           IN  IF res.tag = "Ok" THEN Returns(res.val) ELSE Answers(res.tag)

\* Every value a constructor returns on the inputs above.
Constructed ==
    {new(n, d) : n \in Ints, d \in Ints}
    \cup {from_integer(n) : n \in Ints}
    \cup {infinity(sign) : sign \in BOOLEAN}
    \cup {nan}
    \cup {from_float(f) : f \in Floats}
    \cup {from_str(s).val : s \in {t \in StrInputs : from_str(t).tag = "Ok"}}

(***************************************************************************)
(* The operations.  An operation is modelled where its operands are         *)
(* InRange.                                                                 *)
(***************************************************************************)
Add ==
    /\ InRange(x) /\ InRange(y)
    /\ op' = "add" /\ args' = <<>> /\ Returns(add(x, y))

Sub ==
    /\ InRange(x) /\ InRange(y)
    /\ op' = "sub" /\ args' = <<>> /\ Returns(sub(x, y))

Mul ==
    /\ InRange(x) /\ InRange(y)
    /\ op' = "mul" /\ args' = <<>> /\ Returns(mul(x, y))

Div ==
    /\ InRange(x) /\ InRange(y)
    /\ op' = "div" /\ args' = <<>> /\ Returns(div(x, y))

Neg ==
    /\ InRange(x)
    /\ op' = "neg" /\ args' = <<>> /\ Returns(neg(x))

PowOp ==
    \E e \in Exps :
        /\ InRange(x)
        /\ op' = "pow" /\ args' = <<e>> /\ Returns(pow(x, e))

LimitDenominator ==
    \E m \in MaxDens :
        /\ InRange(x)
        /\ op' = "limit_denominator"
        /\ args' = <<m>>
        /\ LET res == limit_denominator(x, m)
           IN  IF res.tag = "Ok" THEN Returns(res.val)
               ELSE IF res.tag = "Err"
               THEN Answers("max_denominator should be at least 1")
               ELSE Answers("panic")

Eq ==
    /\ InRange(x) /\ InRange(y)
    /\ op' = "eq" /\ args' = <<>>
    /\ Answers(IF eq(x, y) THEN "true" ELSE "false")

PartialCmp ==
    /\ InRange(x) /\ InRange(y)
    /\ op' = "partial_cmp" /\ args' = <<>>
    /\ Answers(partial_cmp(x, y))

Cmp ==
    /\ InRange(x) /\ InRange(y)
    /\ op' = "cmp" /\ args' = <<>>
    /\ Answers(cmp(x, y))

\* let x = r, or let y = r.
Let ==
    /\ r # <<>>
    /\ \E t \in {"x", "y"} :
          /\ x' = IF t = "x" THEN r[1] ELSE x
          /\ y' = IF t = "y" THEN r[1] ELSE y
    /\ op' = "let"
    /\ args' = <<>>
    /\ r' = <<>>
    /\ out' = ""

(***************************************************************************)
(* Spec: the operations on every pair of constructed values, and on the     *)
(* values they return.                                                      *)
(***************************************************************************)
Init ==
    /\ x \in Constructed
    /\ y \in Constructed
    /\ op = "let"
    /\ args = <<>>
    /\ r = <<>>
    /\ out = ""

Next ==
    \/ Add
    \/ Sub
    \/ Mul
    \/ Div
    \/ Neg
    \/ PowOp
    \/ LimitDenominator
    \/ Eq
    \/ PartialCmp
    \/ Cmp
    \/ Let

Spec == Init /\ [][Next]_vars

(***************************************************************************)
(* SpecConstruct: the constructor calls, with their arguments.              *)
(***************************************************************************)
InitConstruct ==
    /\ x = from_integer(0)
    /\ y = from_integer(0)
    /\ op = "let"
    /\ args = <<>>
    /\ r = <<>>
    /\ out = ""

NextConstruct ==
    \/ New
    \/ FromInteger
    \/ Infinity
    \/ Nan
    \/ FromFloat
    \/ FromStr

SpecConstruct == InitConstruct /\ [][NextConstruct]_vars

(***************************************************************************)
(* The claims.  In a state with op = "add" (and likewise for the other      *)
(* calls) x and y are the operands of the call and r[1] is what it          *)
(* returned.                                                                *)
(***************************************************************************)
PosInf == ExtFraction(1, 0)
NegInf == ExtFraction(-1, 0)
Zero == ExtFraction(0, 1)

\* The values new returns.
NewValues == {new(n, d) : n \in Ints, d \in Ints}

ValidEncoding(f) ==
    \/ f.denominator > 0 /\ gcd(Abs(f.numerator), f.denominator) = 1
    \/ f.denominator = 0 /\ f.numerator \in {-1, 0, 1}

\* C1: every value a constructor or an operation returns, and every value
\* bound, is finite with denominator > 0 and gcd(|numerator|, denominator)
\* = 1, or has denominator 0 and numerator in {-1, 0, 1}.
C1_EncodingInvariant ==
    /\ ValidEncoding(x)
    /\ ValidEncoding(y)
    /\ r # <<>> => ValidEncoding(r[1])

\* C2: new(n, d) is the canonical form of n/d: for d # 0 the result p/q has
\* q > 0, gcd(|p|, q) = 1 and p*d = n*q, and it is the same for -n/-d and
\* 2n/2d; for d = 0 it is NaN, +infinity or -infinity as n is 0, positive or
\* negative.
C2_NewCanonical ==
    op = "new" =>
        LET n == args[1]
            d == args[2]
            p == r[1].numerator
            q == r[1].denominator
        IN  IF d # 0
            THEN /\ q > 0
                 /\ gcd(Abs(p), q) = 1
                 /\ p * d = n * q
                 /\ n = 0 => r[1] = Zero
                 /\ new(-n, -d) = r[1]
                 /\ new(2 * n, 2 * d) = r[1]
            ELSE r[1] = IF n = 0 THEN nan ELSE IF n > 0 THEN PosInf ELSE NegInf

\* C2's case: new(4, -2) returned -2/1.
C2_Witness ==
    op = "new" /\ args = <<4, -2>> /\ r = <<ExtFraction(-2, 1)>>

\* C3: infinity + infinity of the same sign is that infinity, of opposite
\* signs NaN; infinity + finite and finite + infinity are the infinite
\* operand.
C3_AddInfinite ==
    op = "add" =>
        /\ is_infinite(x) /\ is_infinite(y) =>
              r[1] = IF x.numerator = y.numerator THEN x ELSE nan
        /\ is_infinite(x) /\ is_finite(y) => r[1] = x
        /\ is_finite(x) /\ is_infinite(y) => r[1] = y

Negative(f) == (f.numerator < 0) # (f.denominator < 0)

\* C5: division returns a value for all operands; finite a # 0 divided by 0
\* is the infinity with the sign of a, 0 / 0 is NaN, finite / infinity is
\* 0/1, and infinity / finite is the dividend.
C5_DivSpecial ==
    op = "div" =>
        /\ r # <<>> /\ out = ""
        /\ is_finite(x) /\ is_finite(y) /\ y.numerator = 0 =>
              r[1] = IF x.numerator = 0 THEN nan
                     ELSE IF Negative(x) THEN NegInf ELSE PosInf
        /\ is_finite(x) /\ is_infinite(y) => r[1] = Zero
        /\ is_infinite(x) /\ is_finite(y) => r[1] = x

\* An operand of mul is negative: -infinity, or a finite negative rational.
NegativeOperand(f) == IF is_infinite(f) THEN f.numerator < 0 ELSE Negative(f)

\* C6: 0 * infinity and infinity * 0 are NaN; infinity times a nonzero
\* finite value, in either order, and infinity times infinity are the
\* infinity that is negative iff exactly one operand is negative.
C6_MulInfinite ==
    op = "mul" /\ ~is_nan(x) /\ ~is_nan(y)
               /\ (is_infinite(x) \/ is_infinite(y)) =>
        r[1] = IF \/ is_finite(x) /\ x.numerator = 0
                  \/ is_finite(y) /\ y.numerator = 0
               THEN nan
               ELSE IF NegativeOperand(x) # NegativeOperand(y) THEN NegInf
               ELSE PosInf

\* C7: +, -, *, / with a NaN operand return NaN, -NaN is NaN and NaN.pow(e)
\* is NaN for every e, 0 included.  The operands are the values bound by
\* let, results of earlier calls among them, so a NaN that a call returned
\* makes every later call on it return NaN.
C7_NanPropagation ==
    /\ op \in {"add", "sub", "mul", "div"} /\ (is_nan(x) \/ is_nan(y)) =>
          r = <<nan>>
    /\ op \in {"neg", "pow"} /\ is_nan(x) => r = <<nan>>

\* C7's case: NaN.pow(0) returned NaN.
C7_Witness ==
    op = "pow" /\ is_nan(x) /\ args = <<0>> /\ r = <<nan>>

\* C8: with NaN on either side == is false and partial_cmp is None, in both
\* operand orders, so that none of <, <=, >, >= holds.
C8_NanUnordered ==
    is_nan(x) \/ is_nan(y) =>
        /\ op = "eq" => out = "false" /\ ~eq(y, x)
        /\ op = "partial_cmp" =>
              /\ out = "None" /\ partial_cmp(y, x) = "None"
              /\ ~lt(x, y) /\ ~le(x, y) /\ ~gt(x, y) /\ ~ge(x, y)
              /\ ~lt(y, x) /\ ~le(y, x) /\ ~gt(y, x) /\ ~ge(y, x)

\* C8's case: NaN == NaN answered false.
C8_Witness ==
    op = "eq" /\ is_nan(x) /\ is_nan(y) /\ out = "false"

\* The order of the rationals two finite values denote.
RatCmp(a, b) ==
    LET s == IF (a.denominator < 0) # (b.denominator < 0) THEN -1 ELSE 1
    IN  int_cmp(s * a.numerator * b.denominator,
                s * b.numerator * a.denominator)

\* The operands a comparison is modelled on.
Operands == {v \in Constructed : InRange(v)}

\* C9: on values that are not NaN exactly one of a < b, a == b, a > b
\* holds, < is transitive, -infinity is below and +infinity above every
\* finite value, and finite values order as the rationals they denote.
C9_TotalOrder ==
    op = "partial_cmp" /\ ~is_nan(x) /\ ~is_nan(y) =>
        /\ \/ out = "Less" /\ ~eq(x, y) /\ ~gt(x, y)
           \/ out # "Less" /\ eq(x, y) /\ ~gt(x, y)
           \/ out # "Less" /\ ~eq(x, y) /\ gt(x, y)
        /\ \A c \in Operands :
              ~is_nan(c) /\ lt(x, y) /\ lt(y, c) => lt(x, c)
        /\ is_finite(x) => lt(NegInf, x) /\ lt(x, PosInf)
        /\ is_finite(x) /\ is_finite(y) => out = RatCmp(x, y)

One == ExtFraction(1, 1)

\* The finite values new returns.
FiniteNew == {v \in NewValues : is_finite(v)}

\* C10: on finite a, b, c built by new, + and * are commutative and
\* associative, * distributes over +, a + 0 == a, a * 1 == a,
\* a + (-a) == 0, and a * (1/a) == 1 for a # 0.
C10_FieldAxioms ==
    x \in FiniteNew /\ y \in FiniteNew =>
        /\ op = "add" =>
              /\ eq(r[1], add(y, x))
              /\ \A c \in FiniteNew : eq(add(r[1], c), add(x, add(y, c)))
              /\ y = Zero => eq(r[1], x)
              /\ y = neg(x) => eq(r[1], Zero)
        /\ op = "mul" =>
              /\ eq(r[1], mul(y, x))
              /\ \A c \in FiniteNew : eq(mul(r[1], c), mul(x, mul(y, c)))
              /\ \A c \in FiniteNew :
                    eq(mul(x, add(y, c)), add(r[1], mul(x, c)))
              /\ y = One => eq(r[1], x)
              /\ x.numerator # 0 /\ y = div(One, x) => eq(r[1], One)

\* C10's case: 2/3 * (1 / (2/3)) returned 1/1.
C10_Witness ==
    /\ op = "mul"
    /\ x = new(2, 3)
    /\ y = div(One, new(2, 3))
    /\ r = <<One>>

\* 1 * a * a * ... * a with n factors a, computed with the * operator.
RECURSIVE Product(_, _)
Product(a, n) == IF n = 0 THEN One ELSE mul(Product(a, n - 1), a)

\* C11: for every a that is not NaN, the infinities included, and every
\* n >= 0, a.pow(n) == 1 * a * ... * a (n factors); a.pow(0) == 1.
C11_PowProduct ==
    op = "pow" /\ ~is_nan(x) /\ args[1] >= 0 =>
        /\ eq(r[1], Product(x, args[1]))
        /\ args[1] = 0 => eq(r[1], One)


\* C12: for every a # 0 that is not NaN and every n >= 1,
\* a.pow(-n) == (1/a).pow(n), which is 0 for an infinite a; the result for
\* a finite a is in canonical form with a positive denominator; and
\* 0.pow(-n) is +infinity.
C12_PowNegative ==
    op = "pow" /\ ~is_nan(x) /\ args[1] < 0 =>
        IF is_finite(x) /\ x.numerator = 0 THEN r[1] = PosInf
        ELSE /\ eq(r[1], pow(div(One, x), -args[1]))
             /\ is_infinite(x) => r[1] = Zero
             /\ is_finite(x) =>
                   /\ r[1].denominator > 0
                   /\ gcd(Abs(r[1].numerator), r[1].denominator) = 1

\* C12's case: (-2/3).pow(-1) returned -3/2.
C12_Witness ==
    op = "pow" /\ x = new(-2, 3) /\ args = <<-1>> /\ r = <<ExtFraction(-3, 2)>>


\* The numerators p of the rationals p/q that a result is compared with.
Candidates == -(MaxAbs * MaxAbs) .. MaxAbs * MaxAbs

\* v is at least as close to f as p/q is: |f - v| <= |f - p/q|, multiplied
\* out by the denominators.
AsCloseAs(f, v, p, q) ==
    Abs(f.numerator * v.denominator - v.numerator * f.denominator) * q
        <= Abs(f.numerator * q - p * f.denominator) * Abs(v.denominator)

\* C13: for every finite f with numerator >= 0 and every m >= 1,
\* f.limit_denominator(m) returns r in lowest terms with denominator in
\* 1..m, at least as close to f as every p/q with q in 1..m, and r == f
\* when the denominator of f is at most m.
C13_BestApproximation ==
    op = "limit_denominator" /\ is_finite(x) /\ x.numerator >= 0
                             /\ args[1] >= 1 =>
        /\ r # <<>>
        /\ r[1].denominator \in 1 .. args[1]
        /\ gcd(Abs(r[1].numerator), r[1].denominator) = 1
        /\ \A q \in 1 .. args[1], p \in Candidates : AsCloseAs(x, r[1], p, q)
        /\ x.denominator <= args[1] => eq(r[1], x)


\* C14: limit_denominator ends in the invalid-argument error whenever
\* max_denominator < 1, whatever the receiver, and returns Ok for every
\* max_denominator >= 1.
C14_LimitDenominatorError ==
    op = "limit_denominator" =>
        IF args[1] < 1
        THEN r = <<>> /\ out = "max_denominator should be at least 1"
        ELSE r # <<>> /\ out = ""


\* The rational s * m * 2^(e - MantBits) that a finite float denotes, as
\* new builds it: s the sign, e the unbiased exponent, m the mantissa with
\* the implicit bit restored.
FloatValue(f) ==
    LET s == IF f.sign = 1 THEN -1 ELSE 1
        e == f.bexp - ExpBias
        m == f.frac + Pow(2, MantBits)
        k == e - MantBits
    IN  IF k >= 0 THEN new(s * m * Pow(2, k), 1) ELSE new(s * m, Pow(2, -k))

\* C15: from_float of a finite float is == to the rational
\* s * m * 2^(e - MantBits) it denotes; from_float of +infinity, -infinity
\* and NaN is +infinity, -infinity and NaN.
C15_FromFloatExact ==
    op = "from_float" =>
        IF f64_is_nan(args[1]) THEN r[1] = nan
        ELSE IF f64_is_infinite(args[1])
        THEN r[1] = IF args[1].sign = 0 THEN PosInf ELSE NegInf
        ELSE eq(r[1], FloatValue(args[1]))


\* A finite value in canonical form.
Canonical(f) ==
    f.denominator > 0 /\ gcd(Abs(f.numerator), f.denominator) = 1

\* C16: for canonical finite a = na/da and b = nb/db,
\* a + b == new(na*db + nb*da, da*db), a - b == new(na*db - nb*da, da*db),
\* a * b == new(na*nb, da*db) and, for nb # 0, a / b == new(na*db, da*nb).
C16_FiniteExact ==
    Canonical(x) /\ Canonical(y) =>
        LET na == x.numerator
            da == x.denominator
            nb == y.numerator
            db == y.denominator
        IN  /\ op = "add" => eq(r[1], new(na * db + nb * da, da * db))
            /\ op = "sub" => eq(r[1], new(na * db - nb * da, da * db))
            /\ op = "mul" => eq(r[1], new(na * nb, da * db))
            /\ op = "div" /\ nb # 0 => eq(r[1], new(na * db, da * nb))

\* C16's case: 1/2 + (-1/2), the reduced-cross path with t = 0,
\* returned 0/1.
C16_Witness ==
    op = "add" /\ x = new(1, 2) /\ y = new(-1, 2) /\ r = <<Zero>>


\* C17: for every finite f with numerator < 0 and every m >= 1,
\* f.limit_denominator(m) returns a value with denominator in 1..m that is
\* == to -((-f).limit_denominator(m)).
C17_LimitDenominatorNegative ==
    op = "limit_denominator" /\ is_finite(x) /\ x.numerator < 0
                             /\ args[1] >= 1 =>
        /\ r # <<>>
        /\ r[1].denominator \in 1 .. args[1]
        /\ limit_denominator(neg(x), args[1]).tag = "Ok"
        /\ eq(r[1], neg(limit_denominator(neg(x), args[1]).val))


\* C18: for all a, b that are not NaN, a.cmp(&b) is the ordering inside
\* a.partial_cmp(&b), and a.cmp(&b) is Equal iff a == b.
C18_CmpAgrees ==
    op = "cmp" /\ ~is_nan(x) /\ ~is_nan(y) =>
        /\ out = partial_cmp(x, y)
        /\ out = "Equal" <=> eq(x, y)


\* C19: for every a that is not NaN and every finite b # 0,
\* a / b == a * (1 / b); for all a, b that are not NaN and whose difference
\* is not NaN, a - b == a + (-b).
C19_DivSubDefinitions ==
    ~is_nan(x) /\ ~is_nan(y) =>
        /\ op = "div" /\ is_finite(y) /\ y.numerator # 0 =>
              eq(r[1], mul(x, div(One, y)))
        /\ op = "sub" /\ ~is_nan(r[1]) => eq(r[1], add(x, neg(y)))

=============================================================================
